---- MODULE Spec2Model ----
(***************************************************************************)
(* JNIWeakGlobalRefLocker.criticalNative: a native method that takes the   *)
(* object out of the holder's `obj` field, keeps the field null while it   *)
(* repeatedly creates and deletes a weak global reference to the object,   *)
(* and finally writes the object back.  The model follows the native       *)
(* method statement by statement; the JVM (field access, weak references,  *)
(* the collector), the clock and the sleep are its environment.            *)
(*                                                                         *)
(* AccessBridgeDebug: the file logger of the access bridge, with its       *)
(* initializeFileLogger, finalizeFileLogger and the four PrintDebugString  *)
(* functions, is modelled next to it, in a specification of its own.       *)
(***************************************************************************)
EXTENDS Integers, Sequences, FiniteSets, TLC

\* ------------------------------------------------- bounds of the model
TicksPerSec == 2          \* resolution of the model clock: ticks per second
EpochSec == 1             \* time(NULL) of the first instant of the model
MaxCalls == 2             \* calls of criticalNative in one behaviour
MaxEnterHalves == 4       \* largest enterTime, in units of 500 ms
MaxSleepHalves == 1       \* largest sleepTime, in units of 500 ms
MaxRefs == 2              \* weak global handles the JVM can hand out
MaxCount == 5             \* the instrumentation counters saturate here
MaxPathLen == 2           \* longest value of JAVA_ACCESSBRIDGE_LOGFILE
MaxSuffixLen == 1         \* longest suffix handed to initializeFileLogger
MaxFiles == 2             \* calls of fopen that return a stream
MaxPrints == 1            \* lines the print functions write

\* ------------------------------------------------------------- constants
MsPerSec == 1000          \* enterTime /= 1000

NULL == "NULL"
FID == "obj:Ljava/lang/Object;"
KLASS == "JNIWeakGlobalRefLocker.class"
FREE == "free"
Objects == {"X", "Y"}
Referent == "X"           \* the object the holder may refer to; the other one is garbage
Threads == {"t1", "t2"}
Caller == "t1"            \* the thread that calls when no other actor is around

ErrClass == "Error: GetObjectClass returned NULL\n"
ErrField == "Error: GetFieldID returned NULL\n"
ErrObject == "Error: GetObjectField returned NULL\n"

EnterTimes == {h * 500 : h \in -2 .. MaxEnterHalves}
SleepTimes == {h * 500 : h \in 0 .. MaxSleepHalves}

VARIABLES
  now,          \* the clock, in ticks
  slot,         \* the holder's field `obj`
  alive,        \* the objects the collector has not reclaimed
  weakRefs,     \* weak global handle -> FREE, its referent, or NULL once cleared
  objFieldId,   \* static jfieldID objFieldId
  out,          \* the lines printed on stdout
  ncalls,       \* calls started so far
  th,           \* per thread: program counter, parameters and locals of the call
  localRefs,    \* per thread: the objects its native frame holds JNI local references to
  gh,           \* per thread: instrumentation of the current call
  envLogFile,   \* getenv("JAVA_ACCESSBRIDGE_LOGFILE"): nullptr or a string
  logFP,        \* static FILE* logFP: 0 (nullptr) or an index into files
  files         \* the streams fopen has returned: path, open or closed, what was written

lockerVars == <<now, slot, alive, weakRefs, objFieldId, out, ncalls, th, localRefs, gh>>
logVars == <<envLogFile, logFP, files>>
vars == <<now, slot, alive, weakRefs, objFieldId, out, ncalls, th, localRefs, gh,
          envLogFile, logFP, files>>

\* ---------------------------------------------------------------- helpers
\* C++ integer division truncates toward zero.
TruncDiv(a, b) == IF a >= 0 THEN a \div b ELSE -((-a) \div b)

\* time(NULL): the clock in whole seconds.
Time == now \div TicksPerSec

\* The ticks a sleep of ms milliseconds lasts at least.
MsToTicks(ms) == (ms * TicksPerSec + (MsPerSec - 1)) \div MsPerSec

Inc(n) == IF n < MaxCount THEN n + 1 ELSE MaxCount

IdleLocals ==
  [pc |-> "idle", enterTime |-> 0, sleepTime |-> 0, klass |-> NULL, obj |-> NULL,
   gref |-> 0, start_time |-> 0, current_time |-> 0, wake |-> 0]

NoGhost ==
  [slot0 |-> NULL, fid0 |-> NULL, out0 |-> 0, reads |-> 0, writes |-> 0,
   creates |-> 0, deletes |-> 0, entryNow |-> 0, exitNow |-> 0]

\* A null char*: a value no string of characters equals.
nullptr == <<"nullptr">>

Init ==
  /\ now \in (EpochSec * TicksPerSec) .. (EpochSec * TicksPerSec + TicksPerSec - 1)
  /\ slot \in {Referent, NULL}
  /\ alive = Objects
  /\ weakRefs = [i \in 1 .. MaxRefs |-> FREE]
  /\ objFieldId = NULL
  /\ out = << >>
  /\ ncalls = 0
  /\ th = [t \in Threads |-> IdleLocals]
  /\ localRefs = [t \in Threads |-> {}]
  /\ gh = [t \in Threads |-> NoGhost]
  /\ envLogFile = nullptr
  /\ logFP = 0
  /\ files = << >>

\* return: the native frame is popped, and with it its local references.
Ret(t, locals) ==
  /\ th' = [th EXCEPT ![t] = [locals EXCEPT !.pc = "ret"]]
  /\ localRefs' = [localRefs EXCEPT ![t] = {}]

\* ------------------------------------------------------------ the call
\* The caller enters criticalNative(enterTime, sleepTime).
Call(t, e, s) ==
  /\ th[t].pc = "idle"
  /\ ncalls < MaxCalls
  /\ ncalls' = ncalls + 1
  /\ th' = [th EXCEPT ![t] = [IdleLocals EXCEPT !.pc = "L45", !.enterTime = e, !.sleepTime = s]]
  /\ gh' = [gh EXCEPT ![t] = [NoGhost EXCEPT !.slot0 = slot, !.fid0 = objFieldId,
                                             !.out0 = Len(out)]]
  /\ UNCHANGED <<now, slot, alive, weakRefs, objFieldId, out, localRefs>>
  /\ UNCHANGED logVars

\* Mutant: the field id is looked up on every call.
CheckFieldId_Always(t) ==
  /\ th[t].pc = "L45"
  /\ th' = [th EXCEPT ![t].pc = "L46"]
  /\ UNCHANGED <<now, slot, alive, weakRefs, objFieldId, out, ncalls, localRefs, gh>>
  /\ UNCHANGED logVars

\* if (objFieldId == NULL)
CheckFieldId(t) ==
  /\ th[t].pc = "L45"
  /\ th' = [th EXCEPT ![t].pc = IF objFieldId = NULL THEN "L46" ELSE "L57"]
  /\ UNCHANGED <<now, slot, alive, weakRefs, objFieldId, out, ncalls, localRefs, gh>>
  /\ UNCHANGED logVars

\* Mutant: the failure is not reported.
GetObjectClass_Silent(t) ==
  /\ th[t].pc = "L46"
  /\ \E k \in {NULL, KLASS} :
       IF k = NULL
       THEN /\ Ret(t, th[t])
            /\ UNCHANGED out
       ELSE /\ th' = [th EXCEPT ![t].klass = k, ![t].pc = "L51"]
            /\ UNCHANGED <<out, localRefs>>
  /\ UNCHANGED <<now, slot, alive, weakRefs, objFieldId, ncalls, gh>>
  /\ UNCHANGED logVars

\* klass = GetObjectClass(o); if (klass == NULL) { printf; return; }
GetObjectClass(t) ==
  /\ th[t].pc = "L46"
  /\ \E k \in {NULL, KLASS} :
       IF k = NULL
       THEN /\ out' = Append(out, ErrClass)
            /\ Ret(t, th[t])
       ELSE /\ th' = [th EXCEPT ![t].klass = k, ![t].pc = "L51"]
            /\ UNCHANGED <<out, localRefs>>
  /\ UNCHANGED <<now, slot, alive, weakRefs, objFieldId, ncalls, gh>>
  /\ UNCHANGED logVars

\* Mutant: the return after the error message is missing.
GetFieldID_NoReturn(t) ==
  /\ th[t].pc = "L51"
  /\ \E f \in {NULL, FID} :
       /\ objFieldId' = f
       /\ out' = IF f = NULL THEN Append(out, ErrField) ELSE out
  /\ th' = [th EXCEPT ![t].pc = "L57"]
  /\ UNCHANGED <<now, slot, alive, weakRefs, ncalls, gh, localRefs>>
  /\ UNCHANGED logVars

\* objFieldId = GetFieldID(klass, "obj", ...); if (objFieldId == NULL) { printf; return; }
GetFieldID(t) ==
  /\ th[t].pc = "L51"
  /\ \E f \in {NULL, FID} :
       /\ objFieldId' = f
       /\ IF f = NULL
          THEN /\ out' = Append(out, ErrField)
               /\ Ret(t, th[t])
          ELSE /\ th' = [th EXCEPT ![t].pc = "L57"]
               /\ UNCHANGED <<out, localRefs>>
  /\ UNCHANGED <<now, slot, alive, weakRefs, ncalls, gh>>
  /\ UNCHANGED logVars

\* Mutant: the field is cleared before the value read from it is tested.
GetObjectField_ClearFirst(t) ==
  /\ th[t].pc = "L57"
  /\ objFieldId # NULL
  /\ gh' = [gh EXCEPT ![t].reads = Inc(@), ![t].writes = Inc(@)]
  /\ slot' = NULL
  /\ IF slot = NULL
     THEN /\ out' = Append(out, ErrObject)
          /\ Ret(t, [th[t] EXCEPT !.obj = slot])
     ELSE /\ th' = [th EXCEPT ![t].obj = slot, ![t].pc = "L63"]
          /\ localRefs' = [localRefs EXCEPT ![t] = @ \cup {slot}]
          /\ UNCHANGED out
  /\ UNCHANGED <<now, alive, weakRefs, objFieldId, ncalls>>
  /\ UNCHANGED logVars

\* obj = GetObjectField(o, objFieldId); if (obj == NULL) { printf; return; }
GetObjectField(t) ==
  /\ th[t].pc = "L57"
  /\ objFieldId # NULL
  /\ gh' = [gh EXCEPT ![t].reads = Inc(@)]
  /\ IF slot = NULL
     THEN /\ out' = Append(out, ErrObject)
          /\ Ret(t, [th[t] EXCEPT !.obj = slot])
     ELSE /\ th' = [th EXCEPT ![t].obj = slot, ![t].pc = "L62"]
          /\ localRefs' = [localRefs EXCEPT ![t] = @ \cup {slot}]
          /\ UNCHANGED out
  /\ UNCHANGED <<now, slot, alive, weakRefs, objFieldId, ncalls>>
  /\ UNCHANGED logVars

\* Mutant: the field is not cleared.
ClearObjectField_Skipped(t) ==
  /\ th[t].pc = "L62"
  /\ objFieldId # NULL
  /\ th' = [th EXCEPT ![t].pc = "L63"]
  /\ UNCHANGED <<now, slot, alive, weakRefs, objFieldId, out, ncalls, localRefs, gh>>
  /\ UNCHANGED logVars

\* SetObjectField(o, objFieldId, NULL)
ClearObjectField(t) ==
  /\ th[t].pc = "L62"
  /\ objFieldId # NULL
  /\ slot' = NULL
  /\ gh' = [gh EXCEPT ![t].writes = Inc(@)]
  /\ th' = [th EXCEPT ![t].pc = "L63"]
  /\ UNCHANGED <<now, alive, weakRefs, objFieldId, out, ncalls, localRefs>>
  /\ UNCHANGED logVars

\* Mutant: current_time starts as start_time instead of 0.
StartTimer_CurrentIsStart(t) ==
  /\ th[t].pc = "L63"
  /\ th' = [th EXCEPT ![t].start_time = Time,
                      ![t].enterTime = TruncDiv(@, MsPerSec),
                      ![t].current_time = Time,
                      ![t].pc = "L66"]
  /\ gh' = [gh EXCEPT ![t].entryNow = now]
  /\ UNCHANGED <<now, slot, alive, weakRefs, objFieldId, out, ncalls, localRefs>>
  /\ UNCHANGED logVars

\* start_time = time(NULL); enterTime /= 1000; current_time = 0;
StartTimer(t) ==
  /\ th[t].pc = "L63"
  /\ th' = [th EXCEPT ![t].start_time = Time,
                      ![t].enterTime = TruncDiv(@, MsPerSec),
                      ![t].current_time = 0,
                      ![t].pc = "L66"]
  /\ gh' = [gh EXCEPT ![t].entryNow = now]
  /\ UNCHANGED <<now, slot, alive, weakRefs, objFieldId, out, ncalls, localRefs>>
  /\ UNCHANGED logVars

\* Mutant: the loop gives up one second early.
LoopCond_OneSecondShort(t) == th[t].current_time - th[t].start_time < th[t].enterTime - 1

\* Mutant: the loop goes on while the difference equals the threshold.
LoopCond_Inclusive(t) == th[t].current_time - th[t].start_time <= th[t].enterTime

\* while (current_time - start_time < enterTime)
LoopCond(t) == th[t].current_time - th[t].start_time < th[t].enterTime

\* Mutant: the loop also ends after two iterations.
LoopTest_ByCount(t) ==
  /\ th[t].pc = "L66"
  /\ IF LoopCond(t) /\ gh[t].creates < 2
     THEN /\ th' = [th EXCEPT ![t].pc = "L67"]
          /\ UNCHANGED gh
     ELSE /\ th' = [th EXCEPT ![t].pc = "L73"]
          /\ gh' = [gh EXCEPT ![t].exitNow = now]
  /\ UNCHANGED <<now, slot, alive, weakRefs, objFieldId, out, ncalls, localRefs>>
  /\ UNCHANGED logVars

LoopTest(t) ==
  /\ th[t].pc = "L66"
  /\ IF LoopCond(t)
     THEN /\ th' = [th EXCEPT ![t].pc = "L67"]
          /\ UNCHANGED gh
     ELSE /\ th' = [th EXCEPT ![t].pc = "L73"]
          /\ gh' = [gh EXCEPT ![t].exitNow = now]
  /\ UNCHANGED <<now, slot, alive, weakRefs, objFieldId, out, ncalls, localRefs>>
  /\ UNCHANGED logVars

\* Mutant: a second weak reference is made and its handle dropped.
NewWeakGlobalRef_Twice(t) ==
  /\ th[t].pc = "L67"
  /\ \E i \in 1 .. MaxRefs, k \in 1 .. MaxRefs :
       /\ i # k
       /\ weakRefs[i] = FREE
       /\ weakRefs[k] = FREE
       /\ weakRefs' = [weakRefs EXCEPT ![i] = th[t].obj, ![k] = th[t].obj]
       /\ th' = [th EXCEPT ![t].gref = i, ![t].pc = "L68"]
  /\ gh' = [gh EXCEPT ![t].creates = Inc(@)]
  /\ UNCHANGED <<now, slot, alive, objFieldId, out, ncalls, localRefs>>
  /\ UNCHANGED logVars

\* Mutant: the local reference is deleted once the weak one exists.
NewWeakGlobalRef_DropsLocal(t) ==
  /\ th[t].pc = "L67"
  /\ \E i \in 1 .. MaxRefs :
       /\ weakRefs[i] = FREE
       /\ \A j \in 1 .. (i - 1) : weakRefs[j] # FREE
       /\ weakRefs' = [weakRefs EXCEPT ![i] = th[t].obj]
       /\ th' = [th EXCEPT ![t].gref = i, ![t].pc = "L68"]
  /\ gh' = [gh EXCEPT ![t].creates = Inc(@)]
  /\ localRefs' = [localRefs EXCEPT ![t] = @ \ {th[t].obj}]
  /\ UNCHANGED <<now, slot, alive, objFieldId, out, ncalls>>
  /\ UNCHANGED logVars

\* gref = NewWeakGlobalRef(obj)
NewWeakGlobalRef(t) ==
  /\ th[t].pc = "L67"
  /\ \E i \in 1 .. MaxRefs :
       /\ weakRefs[i] = FREE
       /\ \A j \in 1 .. (i - 1) : weakRefs[j] # FREE
       /\ weakRefs' = [weakRefs EXCEPT ![i] = th[t].obj]
       /\ th' = [th EXCEPT ![t].gref = i, ![t].pc = "L68"]
  /\ gh' = [gh EXCEPT ![t].creates = Inc(@)]
  /\ UNCHANGED <<now, slot, alive, objFieldId, out, ncalls, localRefs>>
  /\ UNCHANGED logVars

\* mssleep((long) sleepTime), entered: the thread blocks until the deadline.
Mssleep(t) ==
  /\ th[t].pc \in {"L68", "L70"}
  /\ th' = [th EXCEPT ![t].wake = now + MsToTicks(th[t].sleepTime),
                      ![t].pc = IF th[t].pc = "L68" THEN "L68s" ELSE "L70s"]
  /\ UNCHANGED <<now, slot, alive, weakRefs, objFieldId, out, ncalls, localRefs, gh>>
  /\ UNCHANGED logVars

\* mssleep returns, not before the deadline.
Wake(t) ==
  /\ th[t].pc \in {"L68s", "L70s"}
  /\ now >= th[t].wake
  /\ th' = [th EXCEPT ![t].pc = IF th[t].pc = "L68s" THEN "L69" ELSE "L71"]
  /\ UNCHANGED <<now, slot, alive, weakRefs, objFieldId, out, ncalls, localRefs, gh>>
  /\ UNCHANGED logVars

\* Mutant: the weak global reference is not deleted.
DeleteWeakGlobalRef_Leaks(t) ==
  /\ th[t].pc = "L69"
  /\ gh' = [gh EXCEPT ![t].deletes = Inc(@)]
  /\ th' = [th EXCEPT ![t].pc = "L70"]
  /\ UNCHANGED <<now, slot, alive, weakRefs, objFieldId, out, ncalls, localRefs>>
  /\ UNCHANGED logVars

\* DeleteWeakGlobalRef(gref)
DeleteWeakGlobalRef(t) ==
  /\ th[t].pc = "L69"
  /\ weakRefs' = [weakRefs EXCEPT ![th[t].gref] = FREE]
  /\ gh' = [gh EXCEPT ![t].deletes = Inc(@)]
  /\ th' = [th EXCEPT ![t].pc = "L70"]
  /\ UNCHANGED <<now, slot, alive, objFieldId, out, ncalls, localRefs>>
  /\ UNCHANGED logVars

\* current_time = time(NULL)
ReadTime(t) ==
  /\ th[t].pc = "L71"
  /\ th' = [th EXCEPT ![t].current_time = Time, ![t].pc = "L66"]
  /\ UNCHANGED <<now, slot, alive, weakRefs, objFieldId, out, ncalls, localRefs, gh>>
  /\ UNCHANGED logVars

\* Mutant: the function returns without writing the object back.
RestoreObjectField_Skipped(t) ==
  /\ th[t].pc = "L73"
  /\ objFieldId # NULL
  /\ Ret(t, th[t])
  /\ UNCHANGED <<now, slot, alive, weakRefs, objFieldId, out, ncalls, gh>>
  /\ UNCHANGED logVars

\* SetObjectField(o, objFieldId, obj); and the function returns.
RestoreObjectField(t) ==
  /\ th[t].pc = "L73"
  /\ objFieldId # NULL
  /\ slot' = th[t].obj
  /\ gh' = [gh EXCEPT ![t].writes = Inc(@)]
  /\ Ret(t, th[t])
  /\ UNCHANGED <<now, alive, weakRefs, objFieldId, out, ncalls>>
  /\ UNCHANGED logVars

\* GetObjectField or SetObjectField with a NULL jfieldID, which another thread's
\* failed GetFieldID has stored in objFieldId meanwhile: undefined.  The JVM
\* crashes, or it accesses some other word of the holder: a read then yields
\* anything, a write leaves the field as it is.
NullFieldIdAccess(t) ==
  /\ objFieldId = NULL
  /\ \/ /\ th[t].pc \in {"L57", "L62", "L73"}
        /\ th' = [th EXCEPT ![t].pc = "crash"]
        /\ UNCHANGED <<localRefs, out, gh>>
     \/ /\ th[t].pc = "L57"
        /\ gh' = [gh EXCEPT ![t].reads = Inc(@)]
        /\ \E v \in Objects \cup {NULL} :
             IF v = NULL
             THEN /\ out' = Append(out, ErrObject)
                  /\ Ret(t, [th[t] EXCEPT !.obj = v])
             ELSE /\ th' = [th EXCEPT ![t].obj = v, ![t].pc = "L62"]
                  /\ localRefs' = [localRefs EXCEPT ![t] = @ \cup {v}]
                  /\ UNCHANGED out
     \/ /\ th[t].pc = "L62"
        /\ th' = [th EXCEPT ![t].pc = "L63"]
        /\ UNCHANGED <<localRefs, out, gh>>
     \/ /\ th[t].pc = "L73"
        /\ Ret(t, th[t])
        /\ UNCHANGED <<out, gh>>
  /\ UNCHANGED <<now, slot, alive, weakRefs, objFieldId, ncalls>>
  /\ UNCHANGED logVars

\* The caller takes the return and may call again.
Return(t) ==
  /\ th[t].pc = "ret"
  /\ th' = [th EXCEPT ![t] = IdleLocals]
  /\ gh' = [gh EXCEPT ![t] = NoGhost]
  /\ UNCHANGED <<now, slot, alive, weakRefs, objFieldId, out, ncalls, localRefs>>
  /\ UNCHANGED logVars

\* --------------------------------------------------------- environment
\* A thread that cannot go on before the clock advances.
WaitsForClock(t) ==
  \/ th[t].pc \in {"L68s", "L70s"} /\ now < th[t].wake
  \/ th[t].pc \in {"L66", "L67", "L68", "L68s", "L69", "L70", "L70s", "L71"}
       /\ Time - th[t].start_time < th[t].enterTime

\* The clock advances by one tick.  It stops at the end of the first second
\* once no thread waits for it, which keeps the model finite.
Tick ==
  /\ \/ now < (EpochSec + 1) * TicksPerSec - 1
     \/ \E t \in Threads : WaitsForClock(t)
  /\ now' = now + 1
  /\ UNCHANGED <<slot, alive, weakRefs, objFieldId, out, ncalls, th, localRefs, gh>>
  /\ UNCHANGED logVars

\* An object is strongly reachable from the holder's field or from a JNI local
\* reference of a running native frame; a weak global reference does not count.
StronglyReachable(o) == slot = o \/ \E t \in Threads : o \in localRefs[t]

\* The collector reclaims an object nothing refers to strongly, and clears the
\* weak global references to it.
Reclaim(o) ==
  /\ o \in alive
  /\ ~StronglyReachable(o)
  /\ alive' = alive \ {o}
  /\ weakRefs' = [i \in 1 .. MaxRefs |-> IF weakRefs[i] = o THEN NULL ELSE weakRefs[i]]
  /\ UNCHANGED <<now, slot, objFieldId, out, ncalls, th, localRefs, gh>>
  /\ UNCHANGED logVars

\* ------------------------------------------------------- specification
Step(t) ==
  \/ CheckFieldId(t)
  \/ GetObjectClass(t)
  \/ GetFieldID(t)
  \/ GetObjectField(t)
  \/ ClearObjectField(t)
  \/ StartTimer(t)
  \/ LoopTest(t)
  \/ NewWeakGlobalRef(t)
  \/ Mssleep(t)
  \/ Wake(t)
  \/ DeleteWeakGlobalRef(t)
  \/ ReadTime(t)
  \/ RestoreObjectField(t)

Next ==
  \/ \E e \in EnterTimes, s \in SleepTimes : Call(Caller, e, s)
  \/ \E t \in Threads : Step(t)
  \/ \E t \in Threads : Return(t)
  \/ Tick
  \/ \E o \in Objects : Reclaim(o)

\* No other actor: one thread calls criticalNative, one call after the other.
Spec == Init /\ [][Next]_vars

\* Two threads call criticalNative on the same holder at the same time, once
\* each, the field holding the referent at first.
ConcEnterTimes == {-1000, 0}
ConcSleepTimes == {0}

InitConc == Init /\ slot = Referent

NextConc ==
  \/ \E t \in Threads, e \in ConcEnterTimes, s \in ConcSleepTimes : Call(t, e, s)
  \/ \E t \in Threads : Step(t)
  \/ \E t \in Threads : NullFieldIdAccess(t)
  \/ Tick
  \/ \E o \in Objects : Reclaim(o)

SpecConc == InitConc /\ [][NextConc]_vars

\* The scheduler runs a runnable thread eventually, and the clock advances.
FairSpec == Spec /\ WF_vars(Tick) /\ \A t \in Threads : WF_vars(Step(t))

\* ------------------------------------------------------ AccessBridgeDebug
\* Strings are sequences of characters; NUL is the terminating zero byte.
NUL == "\\0"
PathChars == {"a", "."}
SuffixChars == {"s"}
DotLog == <<".", "l", "o", "g">>
EOL == "\r\n"

RECURSIVE Strings(_, _)
Strings(chars, n) ==
  IF n = 0 THEN {<< >>}
  ELSE LET shorter == Strings(chars, n - 1)
       IN shorter \cup {Append(w, c) : w \in {x \in shorter : Len(x) = n - 1}, c \in chars}

EnvValues == {nullptr} \cup Strings(PathChars, MaxPathLen)
Suffixes == {nullptr} \cup Strings(SuffixChars, MaxSuffixLen)
Messages == {"msg"}

\* strlen(suffix), or 0 for a null suffix.
SuffixLen(suffix) == IF suffix # nullptr THEN Len(suffix) ELSE 0

\* strrchr: the index of the last occurrence of c in str, 0 for nullptr.
Strrchr(str, c) ==
  IF \E i \in 1 .. Len(str) : str[i] = c
  THEN CHOOSE i \in 1 .. Len(str) : str[i] = c /\ \A j \in i + 1 .. Len(str) : str[j] # c
  ELSE 0

\* new char[n] followed by memset(buf, 0, n).
Memset0(n) == [i \in 1 .. n |-> NUL]

\* memcpy(buf + off, src + from, n); src is not read when n is 0.
Memcpy(buf, off, src, from, n) ==
  [i \in 1 .. Len(buf) |-> IF off < i /\ i <= off + n THEN src[from + i - off] ELSE buf[i]]

\* The C string a buffer holds: its bytes before the first NUL.
CStr(buf) ==
  IF \E i \in 1 .. Len(buf) : buf[i] = NUL
  THEN SubSeq(buf, 1, (CHOOSE i \in 1 .. Len(buf) :
                         buf[i] = NUL /\ \A j \in 1 .. i - 1 : buf[j] # NUL) - 1)
  ELSE buf

\* Mutant of FilePath: the suffix is appended after the extension.
FilePath_SuffixLast(envfilePath, suffix) ==
  LET ext == Strrchr(envfilePath, ".")
      len == Len(envfilePath)
      suffixlen == SuffixLen(suffix)
  IN IF ext = 0
     THEN CStr(Memcpy(Memcpy(Memcpy(Memset0(len + suffixlen + 5),
                 0, envfilePath, 0, len), len, suffix, 0, suffixlen),
                 len + suffixlen, DotLog, 0, 4))
     ELSE CStr(Memcpy(Memcpy(Memset0(len + suffixlen + 1),
                 0, envfilePath, 0, len), len, suffix, 0, suffixlen))

\* The path initializeFileLogger builds in filePath.
FilePath(envfilePath, suffix) ==
  LET ext == Strrchr(envfilePath, ".")
      len == Len(envfilePath)
      suffixlen == SuffixLen(suffix)
  IN IF ext = 0
     THEN CStr(Memcpy(Memcpy(Memcpy(Memset0(len + suffixlen + 5),
                 0, envfilePath, 0, len), len, suffix, 0, suffixlen),
                 len + suffixlen, DotLog, 0, 4))
     ELSE LET extLen == len - ext + 1
          IN CStr(Memcpy(Memcpy(Memcpy(Memset0(len + suffixlen + 1),
                 0, envfilePath, 0, len - extLen), len - extLen, suffix, 0, suffixlen),
                 len + suffixlen - extLen, envfilePath, ext - 1, extLen))

\* getTimeStamp: the clock in milliseconds.
getTimeStamp == (now * MsPerSec) \div TicksPerSec

\* fopen(filePath, "w") returned a stream.
NewFile(filePath) == [path |-> filePath, open |-> TRUE, data |-> << >>]

\* Variant of initializeFileLogger: the stream of an earlier call is closed first.
initializeFileLogger_ClosesOld(suffix) ==
  /\ Len(files) < MaxFiles
  /\ IF envLogFile # nullptr
     THEN LET filePath == FilePath(envLogFile, suffix)
              closed == [i \in 1 .. Len(files) |->
                           IF i = logFP THEN [files[i] EXCEPT !.open = FALSE] ELSE files[i]]
          IN \/ /\ files' = Append(closed, NewFile(filePath))
                /\ logFP' = Len(files) + 1
             \/ /\ logFP' = 0
                /\ files' = closed
     ELSE UNCHANGED <<logFP, files>>
  /\ UNCHANGED <<envLogFile, lockerVars>>

\* initializeFileLogger: nothing without the variable; otherwise the path is
\* built and opened, and logFP takes what fopen returned.  A failed fopen is
\* reported through PrintDebugString, which finds logFP null.
initializeFileLogger(suffix) ==
  /\ Len(files) < MaxFiles
  /\ IF envLogFile # nullptr
     THEN LET filePath == FilePath(envLogFile, suffix)
          IN \/ /\ files' = Append(files, NewFile(filePath))
                /\ logFP' = Len(files) + 1
             \/ /\ logFP' = 0
                /\ UNCHANGED files
     ELSE UNCHANGED <<logFP, files>>
  /\ UNCHANGED <<envLogFile, lockerVars>>

\* finalizeFileLogger: closes the stream logFP refers to, if any.
finalizeFileLogger ==
  /\ IF logFP # 0
     THEN /\ files' = [files EXCEPT ![logFP].open = FALSE]
          /\ logFP' = 0
     ELSE UNCHANGED <<logFP, files>>
  /\ UNCHANGED <<envLogFile, lockerVars>>

\* What one call of a print function writes: the time stamp in the
\* function's format, the formatted message, the line terminator.
LogLine(stampFormat, wide, msg) ==
  <<[format |-> stampFormat, stamp |-> getTimeStamp], [wide |-> wide, text |-> msg], EOL>>

\* The pieces written so far, over all streams; a line is three of them.
RECURSIVE PiecesWritten(_)
PiecesWritten(n) == IF n = 0 THEN 0 ELSE Len(files[n].data) + PiecesWritten(n - 1)

LinesWritten == (PiecesWritten(Len(files)) + 2) \div 3

\* Mutant of WriteLog: the line is not terminated.
WriteLog_NoTerminator(stampFormat, wide, msg) ==
  /\ LinesWritten < MaxPrints
  /\ IF logFP # 0
     THEN files' = [files EXCEPT ![logFP].data =
                      @ \o SubSeq(LogLine(stampFormat, wide, msg), 1, 2)]
     ELSE UNCHANGED files
  /\ UNCHANGED <<envLogFile, logFP, lockerVars>>

\* Mutant of WriteLog: without a current stream, the line goes to the last one.
WriteLog_Unguarded(stampFormat, wide, msg) ==
  /\ LinesWritten < MaxPrints
  /\ IF logFP # 0
     THEN files' = [files EXCEPT ![logFP].data = @ \o LogLine(stampFormat, wide, msg)]
     ELSE IF files # << >>
          THEN files' = [files EXCEPT ![Len(files)].data =
                           @ \o LogLine(stampFormat, wide, msg)]
          ELSE UNCHANGED files
  /\ UNCHANGED <<envLogFile, logFP, lockerVars>>

\* The if (logFP) block the four print functions share.
WriteLog(stampFormat, wide, msg) ==
  /\ LinesWritten < MaxPrints
  /\ IF logFP # 0
     THEN files' = [files EXCEPT ![logFP].data = @ \o LogLine(stampFormat, wide, msg)]
     ELSE UNCHANGED files
  /\ UNCHANGED <<envLogFile, logFP, lockerVars>>

PrintDebugString(msg) == WriteLog("[%lldu] ", FALSE, msg)
PrintJavaDebugString2(msg) == WriteLog("[%llu] ", FALSE, msg)
wPrintDebugString(msg) == WriteLog("[%llu] ", TRUE, msg)
wPrintJavaDebugString(msg) == WriteLog("[%llu] ", TRUE, msg)

InitLog ==
  /\ now = EpochSec * TicksPerSec
  /\ slot = Referent
  /\ alive = Objects
  /\ weakRefs = [i \in 1 .. MaxRefs |-> FREE]
  /\ objFieldId = NULL
  /\ out = << >>
  /\ ncalls = 0
  /\ th = [t \in Threads |-> IdleLocals]
  /\ localRefs = [t \in Threads |-> {}]
  /\ gh = [t \in Threads |-> NoGhost]
  /\ envLogFile \in EnvValues
  /\ logFP = 0
  /\ files = << >>

NextLog ==
  \/ \E suffix \in Suffixes : initializeFileLogger(suffix)
  \/ finalizeFileLogger
  \/ \E msg \in Messages : PrintDebugString(msg)
  \/ \E msg \in Messages : PrintJavaDebugString2(msg)
  \/ \E msg \in Messages : wPrintDebugString(msg)
  \/ \E msg \in Messages : wPrintJavaDebugString(msg)

SpecLog == InitLog /\ [][NextLog]_vars


\* ---------------------------------------------------------------- claims
\* The lines the current call of t has printed.
CallLines(t) == SubSeq(out, gh[t].out0 + 1, Len(out))

\* The call of t reported a failed field resolution.
ResolutionFailed(t) ==
  /\ th[t].pc # "idle"
  /\ Len(CallLines(t)) >= 1
  /\ CallLines(t)[1] \in {ErrClass, ErrField}

\* The weak global handles in use.
LiveRefs == {i \in 1 .. MaxRefs : weakRefs[i] # FREE}

\* From the clearing of the field to its restore.
ClearedPCs == {"L63", "L66", "L67", "L68", "L68s", "L69", "L70", "L70s", "L71", "L73"}
LoopPCs == {"L66", "L67", "L68", "L68s", "L69", "L70", "L70s", "L71"}

\* C1: when a call has returned, whatever its enterTime and sleepTime and
\* whether it ran the loop or gave up, the holder's field holds the very
\* reference it held when the call began.
C1_SlotSameOnReturn ==
  \A t \in Threads : th[t].pc = "ret" => slot = gh[t].slot0

\* A call that took a non-null reference out of the field and put it back.
C1_Witness ==
  \E t \in Threads :
    th[t].pc = "ret" /\ gh[t].slot0 # NULL /\ gh[t].writes = 2 /\ slot = gh[t].slot0

\* C2 as stated: a call begun with a null field reports the missing referent
\* and returns with the field still null, having written nothing to the field,
\* never entered the loop and created no weak reference.
C2_Original ==
  \A t \in Threads :
    gh[t].slot0 = NULL /\ th[t].pc # "idle" =>
      /\ slot = NULL
      /\ gh[t].writes = 0
      /\ gh[t].creates = 0
      /\ th[t].pc \notin ClearedPCs
      /\ th[t].pc = "ret" => CallLines(t) = <<ErrObject>>

\* C2 as amended: the same, but the missing referent is what the call reports
\* only when the field resolution did not fail; when it failed the call
\* reports that failure and nothing else.
C2_NullSlotReported ==
  \A t \in Threads :
    gh[t].slot0 = NULL /\ th[t].pc # "idle" =>
      /\ slot = NULL
      /\ gh[t].writes = 0
      /\ gh[t].creates = 0
      /\ th[t].pc \notin ClearedPCs
      /\ th[t].pc = "ret" =>
            IF gh[t].reads = 0
            THEN CallLines(t) \in {<<ErrClass>>, <<ErrField>>}
            ELSE CallLines(t) = <<ErrObject>>

\* A call that read the null field and reported it.
C2_Witness ==
  \E t \in Threads :
    /\ th[t].pc = "ret" /\ gh[t].slot0 = NULL /\ gh[t].reads = 1
    /\ CallLines(t) = <<ErrObject>> /\ slot = NULL

\* C3: a call whose field resolution failed (no class, or no field id) has
\* created no weak reference and has neither read nor written the holder's
\* field, which therefore still holds what it held.
C3_ResolutionFailureTouchesNothing ==
  \A t \in Threads :
    ResolutionFailed(t) =>
      /\ gh[t].creates = 0
      /\ gh[t].reads = 0
      /\ gh[t].writes = 0
      /\ slot = gh[t].slot0
      /\ LiveRefs = {}
      /\ th[t].pc = "ret"

\* A call on a non-null field that failed to find the field id.
C3_Witness ==
  \E t \in Threads :
    /\ th[t].pc = "ret" /\ CallLines(t) = <<ErrField>>
    /\ gh[t].slot0 # NULL /\ slot = gh[t].slot0

\* C4: at no instant do two weak global references made by the call exist.
C4_AtMostOneWeakRef == Cardinality(LiveRefs) <= 1

\* The second weak reference of a call exists, the first one deleted.
C4_Witness ==
  \E t \in Threads :
    th[t].pc = "L68s" /\ gh[t].creates = 2 /\ gh[t].deletes = 1 /\ Cardinality(LiveRefs) = 1

\* C5 as stated: the time that passes between loop entry and loop exit is at
\* least enterTime / 1000 seconds, wherever in its second the loop starts.
C5_Original ==
  \A t \in Threads :
    th[t].pc = "L73" =>
      gh[t].exitNow - gh[t].entryNow >= th[t].enterTime * TicksPerSec

\* C5 as amended: it is the difference of the two readings of the one-second
\* clock that is at least enterTime / 1000; the time that passes is more than
\* enterTime / 1000 - 1 seconds.
C5_ElapsedClockSeconds ==
  \A t \in Threads :
    th[t].pc = "L73" =>
      /\ (gh[t].exitNow \div TicksPerSec) - (gh[t].entryNow \div TicksPerSec) >= th[t].enterTime
      /\ gh[t].exitNow - gh[t].entryNow > (th[t].enterTime - 1) * TicksPerSec

\* The loop left after more than its budget, and nothing stopped it earlier:
\* no cap from above.
C5_Witness ==
  \E t \in Threads :
    /\ th[t].pc = "L73" /\ th[t].enterTime >= 1 /\ gh[t].creates >= 1
    /\ gh[t].exitNow - gh[t].entryNow > th[t].enterTime * TicksPerSec

\* A call with enterTime in 2000 .. 2999 and sleepTime 500 that ran its loop
\* and returned.
Scenario2000x500(t) ==
  /\ th[t].pc = "ret"
  /\ gh[t].slot0 # NULL
  /\ gh[t].writes >= 1
  /\ th[t].enterTime = 2
  /\ th[t].sleepTime = 500

\* C6 as stated, read generously: about 4 iterations (3 to 5), as many
\* create/destroy pairs, and the field restored.
C6_Original ==
  \A t \in Threads :
    Scenario2000x500(t) =>
      /\ gh[t].creates \in 3 .. 5
      /\ gh[t].deletes = gh[t].creates
      /\ slot = gh[t].slot0

\* C6 as amended: an iteration sleeps twice, a second in all, so the loop runs
\* at most 2 iterations (and at least one): 1 or 2 create/destroy pairs, and
\* the field restored.
C6_AtMostTwoIterations ==
  \A t \in Threads :
    Scenario2000x500(t) =>
      /\ gh[t].creates \in 1 .. 2
      /\ gh[t].deletes = gh[t].creates
      /\ slot = gh[t].slot0

\* The scenario with two iterations.
C6_Witness ==
  \E t \in Threads :
    Scenario2000x500(t) /\ gh[t].creates = 2 /\ gh[t].deletes = 2 /\ slot = Referent

\* C7: from the clearing of the field to its restore, both sleeps of every
\* iteration included, the holder's field is null.
C7_SlotNullWhileCleared ==
  \A t \in Threads : th[t].pc \in ClearedPCs => slot = NULL

\* Asleep for the second time in an iteration, the field taken from non-null.
C7_Witness ==
  \E t \in Threads :
    th[t].pc = "L70s" /\ gh[t].slot0 # NULL /\ slot = NULL /\ now < th[t].wake

\* C8: a call that has cleared the field cannot give up: it leaves the
\* cleared part only by the restore at line 73; it leaves the loop only when
\* the difference of the one-second clock readings has reached the threshold;
\* and, the clock advancing and the thread being run, it does leave the loop
\* and restore the field, whatever the sleepTime, 0 included.
C8_LeavesLoopOnlyByClock ==
  /\ [][\A t \in Threads :
          th[t].pc \in ClearedPCs /\ th'[t].pc \notin ClearedPCs =>
            th[t].pc = "L73" /\ th'[t].pc = "ret" /\ slot' = gh[t].slot0]_vars
  /\ [][\A t \in Threads :
          th[t].pc \in LoopPCs /\ th'[t].pc = "L73" =>
            th[t].current_time - th[t].start_time >= th[t].enterTime]_vars
  /\ \A t \in Threads :
       (th[t].pc \in ClearedPCs) ~> (th[t].pc = "ret" /\ slot = gh[t].slot0)

\* A call with sleepTime 0 that went round the loop at least three times
\* before the clock let it go, and restored the field.
C8_Witness ==
  \E t \in Threads :
    /\ th[t].pc = "ret" /\ th[t].sleepTime = 0 /\ th[t].enterTime >= 1
    /\ gh[t].creates >= 3 /\ gh[t].writes = 2 /\ slot = Referent

\* C9: objFieldId is looked up by the first call that finds it NULL, keeps its
\* value once it is not NULL, and is then used by later calls without a new
\* lookup; a call whose lookup fails leaves it NULL, so the next call looks it
\* up again.
C9_FieldIdResolvedOnce ==
  /\ [][objFieldId # NULL => objFieldId' = objFieldId]_vars
  /\ [][\A t \in Threads :
          th[t].pc = "L45" /\ th'[t].pc # "L45" =>
            th'[t].pc = IF objFieldId = NULL THEN "L46" ELSE "L57"]_vars
  /\ [](\A t \in Threads : th[t].pc \in {"L46", "L51"} => objFieldId = NULL)
  /\ [](\A t \in Threads : ResolutionFailed(t) => objFieldId = NULL)

\* The second call reads the field with the id the first call resolved.
C9_Witness ==
  \E t \in Threads :
    /\ ncalls = 2 /\ th[t].pc = "L62" /\ gh[t].fid0 = FID /\ objFieldId = FID

\* C10: with the collector free to reclaim, at any step, any object nothing
\* refers to strongly, the object taken out of the field is alive from the
\* read of the field to the restore, with or without a weak reference to it,
\* and the field never refers to a reclaimed object.
C10_ReferentAliveWhileCleared ==
  /\ \A t \in Threads : th[t].pc \in ClearedPCs \cup {"L62"} => th[t].obj \in alive
  /\ slot # NULL => slot \in alive

\* In the loop with no weak reference and the field null, after the collector
\* has reclaimed the other object: only the local reference keeps the referent.
C10_Witness ==
  \E t \in Threads :
    /\ th[t].pc = "L70s" /\ LiveRefs = {} /\ slot = NULL
    /\ alive = {th[t].obj} /\ ~StronglyReachable("Y")

\* A returned call that gave up before clearing the field.
Aborted(t) == th[t].pc = "ret" /\ gh[t].writes = 0

\* A returned call that ran the loop and restored the field.
Completed(t) == th[t].pc = "ret" /\ gh[t].writes >= 1

\* C11 as stated: a call that gives up has printed exactly one line and has
\* changed nothing else (the field, the weak references, the cached field id);
\* a call that runs the loop to its end has printed nothing.
C11_Original ==
  \A t \in Threads :
    /\ Aborted(t) =>
         /\ Len(CallLines(t)) = 1
         /\ slot = gh[t].slot0
         /\ LiveRefs = {}
         /\ gh[t].creates = 0
         /\ objFieldId = gh[t].fid0
    /\ Completed(t) => CallLines(t) = << >>

\* C11 as amended: the same, except that a call that gives up on a null field
\* keeps the field id it has just resolved: the cached field id is then the
\* one other thing it changes.
C11_OneLinePerAbort ==
  \A t \in Threads :
    /\ Aborted(t) =>
         /\ Len(CallLines(t)) = 1
         /\ CallLines(t)[1] \in {ErrClass, ErrField, ErrObject}
         /\ slot = gh[t].slot0
         /\ LiveRefs = {}
         /\ gh[t].creates = 0
         /\ objFieldId = IF CallLines(t)[1] = ErrObject THEN FID ELSE gh[t].fid0
    /\ Completed(t) => CallLines(t) = << >>

\* A call found the class missing, said so in one line and returned.
C11_Witness ==
  \E t \in Threads :
    Aborted(t) /\ CallLines(t) = <<ErrClass>> /\ gh[t].slot0 # NULL /\ slot = gh[t].slot0

\* C12 as stated: at every instant inside the loop, from its entry to its exit,
\* exactly one weak reference is alive.
C12_Original ==
  \A t \in Threads : th[t].pc \in LoopPCs => Cardinality(LiveRefs) = 1

\* C12 as amended: exactly one weak reference is alive from its creation at
\* line 67 to its deletion at line 69, the first sleep included, and none from
\* the deletion through the second sleep and the loop test to the next creation.
C12_OneThenNone ==
  \A t \in Threads :
    /\ th[t].pc \in {"L68", "L68s", "L69"} => LiveRefs = {th[t].gref}
    /\ th[t].pc \in {"L66", "L67", "L70", "L70s", "L71", "L73"} => LiveRefs = {}

\* In the second sleep of the second iteration no weak reference is alive.
C12_Witness ==
  \E t \in Threads :
    th[t].pc = "L70s" /\ gh[t].creates = 2 /\ gh[t].deletes = 2 /\ LiveRefs = {}

\* A step that makes a weak reference, and a step that deletes one.
CreateStep == \E i \in 1 .. MaxRefs : weakRefs[i] = FREE /\ weakRefs'[i] # FREE
DeleteStep == \E i \in 1 .. MaxRefs : weakRefs[i] # FREE /\ weakRefs'[i] = FREE

\* C13: within a call creations and deletions of the weak reference alternate,
\* a creation first and a deletion last: a creation happens only when no weak
\* reference is alive and makes exactly one, to the object taken from the
\* field; a deletion takes the handle the creation before it stored in gref;
\* and on return as many were deleted as created and none is alive.
C13_CreateDeleteAlternate ==
  /\ [][CreateStep =>
          /\ LiveRefs = {}
          /\ \E t \in Threads :
               /\ gh[t].creates = gh[t].deletes
               /\ LiveRefs' = {th'[t].gref}
               /\ weakRefs'[th'[t].gref] = th[t].obj]_vars
  /\ [][DeleteStep =>
          /\ LiveRefs' = {}
          /\ \E t \in Threads :
               /\ LiveRefs = {th[t].gref}
               /\ gh'[t].deletes = gh[t].creates]_vars
  /\ [](\A t \in Threads :
          th[t].pc = "ret" => gh[t].creates = gh[t].deletes /\ LiveRefs = {})

\* A call returned after three creations and three deletions.
C13_Witness ==
  \E t \in Threads :
    th[t].pc = "ret" /\ gh[t].creates = 3 /\ gh[t].deletes = 3 /\ LiveRefs = {}

\* C14: a call that has cleared the field goes round the loop at least once,
\* whatever its enterTime from 0 up, those below 1000 that make a threshold of
\* 0 seconds included: the first test compares 0 - start_time, not 0, with
\* the threshold.
C14_LoopBodyAtLeastOnce ==
  \A t \in Threads :
    th[t].pc = "L73" /\ th[t].enterTime >= 0 =>
      gh[t].creates >= 1 /\ gh[t].deletes >= 1

\* The loop left after one iteration with a threshold of 0 seconds, in the
\* second it started in.
C14_Witness ==
  \E t \in Threads :
    /\ th[t].pc = "L73" /\ th[t].enterTime = 0
    /\ gh[t].creates = 1 /\ gh[t].deletes = 1
    /\ th[t].current_time = th[t].start_time

\* C15: once two concurrent calls on a holder whose field held the referent
\* have both returned, the field holds the referent again, and at no time
\* does the field hold anything but null or the referent.
C15_ConcurrentCallsRestore ==
  /\ slot \in {NULL, Referent}
  /\ (\A t \in Threads : th[t].pc = "ret") => slot = Referent

\* The streams that are open.
OpenFiles == {i \in 1 .. Len(files) : files[i].open}

\* C16: after any calls of initializeFileLogger, finalizeFileLogger and the
\* print functions, at most one log file is open at any time; when
\* finalizeFileLogger returns, every file the logger opened is closed and the
\* log handle is null; and finalizing with nothing open changes nothing.
C16_FinalizeClosesEverything ==
  /\ [](Cardinality(OpenFiles) <= 1)
  /\ [][finalizeFileLogger => (OpenFiles' = {} /\ logFP' = 0)]_vars
  /\ [][(finalizeFileLogger /\ logFP = 0) => UNCHANGED <<logFP, files>>]_vars

\* One call of a print function with this time stamp format has run: with a
\* current stream exactly one line, terminator included, was appended to it
\* and no other stream changed; without one no stream changed.
Logged(stampFormat, wide, msg) ==
  IF logFP # 0
  THEN /\ Len(files') = Len(files)
       /\ \A i \in 1 .. Len(files) : i # logFP => files'[i] = files[i]
       /\ files'[logFP].path = files[logFP].path
       /\ files'[logFP].open = files[logFP].open
       /\ files'[logFP].data = files[logFP].data \o
            <<[format |-> stampFormat, stamp |-> getTimeStamp],
              [wide |-> wide, text |-> msg], EOL>>
  ELSE files' = files

\* C17: each of the four print functions appends exactly one line (time
\* stamp, message, line terminator) to the log file when the log handle is
\* set, and the handle then refers to an open stream; with a null handle
\* (before a successful initialization, after finalizeFileLogger, variable
\* unset, open failed) it writes nothing to any file.
C17_PrintAppendsOneLine ==
  /\ [](logFP # 0 => logFP \in OpenFiles)
  /\ [][\A msg \in Messages :
          /\ PrintDebugString(msg) => Logged("[%lldu] ", FALSE, msg)
          /\ PrintJavaDebugString2(msg) => Logged("[%llu] ", FALSE, msg)
          /\ wPrintDebugString(msg) => Logged("[%llu] ", TRUE, msg)
          /\ wPrintJavaDebugString(msg) => Logged("[%llu] ", TRUE, msg)]_vars

\* A line was written to the current stream after an earlier stream, to
\* which nothing was written, had been closed by finalizeFileLogger.
C17_Witness ==
  /\ logFP # 0
  /\ Len(files[logFP].data) = 3
  /\ files[logFP].data[3] = EOL
  /\ \E i \in 1 .. Len(files) : ~files[i].open /\ files[i].data = << >>

\* The path the description derives from the variable's value P and suffix S.
ExpectedPath(P, S) ==
  LET S0 == IF S = nullptr THEN << >> ELSE S
      dots == {k \in 1 .. Len(P) : P[k] = "."}
  IN IF dots = {}
     THEN P \o S0 \o DotLog
     ELSE LET k == CHOOSE d \in dots : \A e \in dots : e <= d
          IN SubSeq(P, 1, k - 1) \o S0 \o SubSeq(P, k, Len(P))

\* C18: with the variable set to P, the path built for suffix S is P, S and
\* ".log" when P has no '.', and otherwise P with S inserted before its last
\* '.'; its length is len(P) + len(S), plus 4 in the first case; a null
\* suffix counts as empty; a stream fopen returns carries that path; with the
\* variable unset no file is opened and the log handle is unchanged.
C18_PathDerivation ==
  /\ [](envLogFile # nullptr =>
          \A S \in Suffixes :
            LET filePath == FilePath(envLogFile, S)
            IN /\ filePath = ExpectedPath(envLogFile, S)
               /\ Len(filePath) =
                    Len(envLogFile) + (IF S = nullptr THEN 0 ELSE Len(S))
                      + (IF \E k \in 1 .. Len(envLogFile) : envLogFile[k] = "." THEN 0 ELSE 4))
  /\ [][\A S \in Suffixes : initializeFileLogger(S) =>
          IF envLogFile = nullptr
          THEN UNCHANGED <<logFP, files>>
          ELSE Len(files') > Len(files) =>
                 files'[Len(files')].path = ExpectedPath(envLogFile, S)]_vars

\* A non-empty suffix was inserted before the last of two '.' of the value.
C18_Witness ==
  /\ envLogFile = <<".", ".">>
  /\ \E i \in 1 .. Len(files) : files[i].path = <<".", "s", ".">>

====
